---- MODULE Spec2Model ----
(***************************************************************************)
(* Model of setup.py, the Spinel session-start setup script:               *)
(*   ensure_venv      creates the managed environment if it is absent      *)
(*   check_installed  lists the packages of the environment                *)
(*   install_missing  installs the required packages that are not listed   *)
(*   check_api_keys   classifies the two credential variables              *)
(*   main             runs the four in order and prints a report           *)
(* Strings whose characters matter (package specs, package names) are      *)
(* sequences of one-character strings.                                     *)
(***************************************************************************)
EXTENDS Integers, Sequences, FiniteSets, TLC

\* ------------------------------------------------------------------ bounds
\* longest required list drawn for a behaviour
MaxReq == 2
\* number of successive ensure_venv() calls followed in one behaviour
MaxCalls == 2
\* number of successive install_missing() calls followed in one behaviour
MaxInstallCalls == 1
\* longest spec string drawn for the pure normalisation functions
MaxLen == 3

\* ------------------------------------------------------------ characters
\* str.lower() on one character
LowerChar(c) ==
  CASE c = "A" -> "a"
    [] c = "B" -> "b"
    [] c = "D" -> "d"
    [] c = "M" -> "m"
    [] c = "P" -> "p"
    [] OTHER -> c

\* str.lower()
Lower(s) == [i \in 1..Len(s) |-> LowerChar(s[i])]

\* positions at which the two-character token tok starts in s
Occurrences(s, tok) ==
  {i \in 1..(Len(s) - 1) : s[i] = tok[1] /\ s[i + 1] = tok[2]}

Min(S) == CHOOSE x \in S : \A y \in S : x <= y

\* s.split(tok)[0] for a two-character token
SplitFirst(s, tok) ==
  IF Occurrences(s, tok) = {} THEN s
  ELSE SubSeq(s, 1, Min(Occurrences(s, tok)) - 1)

\* s.replace(a, b) for single characters a and b
Replace(s, a, b) == [i \in 1..Len(s) |-> IF s[i] = a THEN b ELSE s[i]]

\* normalize without the split at "<="
normalize_NoLe(name) ==
  Replace(Replace(
    SplitFirst(SplitFirst(Lower(name), <<">", "=">>), <<"=", "=">>),
    "-", "_"), ".", "_")

\* install_missing.normalize (setup.py line 119)
normalize(name) ==
  Replace(Replace(
    SplitFirst(SplitFirst(SplitFirst(Lower(name), <<">", "=">>),
                          <<"<", "=">>), <<"=", "=">>),
    "-", "_"), ".", "_")

\* the key of a listed name without the replacement of "."
InstalledKey_NoDot(word) == Replace(Lower(word), "-", "_")

\* the key check_installed computes for a listed name (setup.py line 109)
InstalledKey(word) == Replace(Replace(Lower(word), "-", "_"), ".", "_")

\* --------------------------------------------------------- program constants
\* the script calls main() once per process (setup.py lines 200-201)
RunsOfMain == 1

\* entries of REQUIREMENTS (setup.py lines 21-42) the required list is drawn from
Spec_mp_api == <<"m","p","-","a","p","i",">","=","0",".","4","1",".","0">>
Spec_PyBaMM == <<"P","y","B","a","M","M">>
SpecPool == {Spec_mp_api, Spec_PyBaMM}

\* names the package manager may list for the environment
Name_mp_api == <<"m","p","-","a","p","i">>
Name_pybamm == <<"p","y","b","a","m","m">>
Name_pip == <<"p","i","p">>
NamePool == {Name_mp_api, Name_pybamm, Name_pip}

\* the lists REQUIREMENTS may be: non-empty, order kept, duplicates tolerated
RequiredLists == UNION {[1..n -> SpecPool] : n \in 1..MaxReq}

\* paths below the base directory (setup.py lines 20, 78, 82)
ParentDir == "~/.spinel"
PosixPython == "~/.spinel/venv/bin/python"
WinPython == "~/.spinel/venv/Scripts/python.exe"
Paths == {ParentDir, PosixPython, WinPython}

Platforms == {"posix", "win32"}

\* the interpreter a successful environment creation puts on disk
CreatedInterpreter(plat) == IF plat = "win32" THEN WinPython ELSE PosixPython

\* get_pip (setup.py lines 62-66)
get_pip(plat) ==
  IF plat = "win32" THEN "~/.spinel/venv/Scripts/pip" ELSE "~/.spinel/venv/bin/pip"

\* get_python (setup.py lines 69-73)
get_python(plat) ==
  IF plat = "win32" THEN "~/.spinel/venv/Scripts/python"
  ELSE "~/.spinel/venv/bin/python"

\* ------------------------------------------------------------ command runner
\* the ways a spawned command can end: exit code 0, another exit code, the
\* 300 s timeout, binary not found, any other exception of subprocess.run
Outcomes == {"exit0", "nonzero", "timeout", "notfound", "oserror"}

\* run reporting success whenever the process ran, whatever its exit code
run_IgnoresExitCode(cmd, o) ==
  IF o \in {"exit0", "nonzero"}
  THEN [ok |-> TRUE, out |-> <<"stdout+stderr", cmd>>]
  ELSE [ok |-> FALSE, out |-> <<"str(e)", o, cmd>>]

\* run (setup.py lines 51-59): the pair (success, output) for a command that
\* ended as outcome o
run(cmd, o) ==
  IF o \in {"exit0", "nonzero"}
  THEN [ok |-> (o = "exit0"), out |-> <<"stdout+stderr", cmd>>]
  ELSE [ok |-> FALSE, out |-> <<"str(e)", o, cmd>>]

\* a message: its fixed text, the number and the command output formatted in
Msg(text, n, out) == [text |-> text, n |-> n, out |-> out]
NoMsg == Msg("", 0, <<>>)
\* a console or status line: its marker and the message formatted in
Line(kind, m) == [kind |-> kind, msg |-> m]

VARIABLES
  platform,   \* sys.platform family of the host
  uvOnPath,   \* shutil.which("uv") finds the fast tool
  files,      \* the paths of Paths that exist
  sitePkgs,   \* the names the package manager lists for the environment
  required,   \* REQUIREMENTS
  pc,         \* position of the running call
  entry,      \* the function called at top level
  calls,      \* number of top-level calls started
  ok,         \* the ok flag last returned by ensure_venv / install_missing
  msg,        \* the message returned with it
  venvOk,     \* main: "true"/"false" as ensure_venv returned, "none" before
  installed,  \* the installed set given to install_missing
  missing,    \* install_missing's missing list
  spawned,    \* the commands spawned by the running top-level call, in order
  status,     \* main: the status list
  printed,    \* lines printed by the running top-level call
  issues,     \* check_api_keys: blocking issues
  notes,      \* check_api_keys: informational notes
  prev,       \* summary of the previous top-level call
  pkg,        \* normalisation: a package spec string
  listed,     \* normalisation: a name as the package manager lists it
  pkgKey,     \* normalisation: normalize(pkg), <<"?">> before it is computed
  listedKey,  \* normalisation: the key of listed, <<"?">> before it is computed
  keysRead,   \* check_api_keys: what os.environ.get returned for the two keys
  peer        \* a second session running ensure_venv() on the same directory

envVars == <<platform, uvOnPath, files, sitePkgs, required>>
callVars == <<pc, entry, calls, ok, msg, venvOk, installed, missing, spawned,
              status, printed, issues, notes, prev>>
normVars == <<pkg, listed, pkgKey, listedKey>>
vars == <<platform, uvOnPath, files, sitePkgs, required, pc, entry, calls, ok,
          msg, venvOk, installed, missing, spawned, status, printed, issues,
          notes, prev, pkg, listed, pkgKey, listedKey, keysRead, peer>>

\* the environment exists for the host platform: its interpreter and its
\* package manager can be executed
VenvUsable == CreatedInterpreter(platform) \in files

NoCall == [fn |-> "none", ok |-> FALSE, nspawn |-> 0]

\* the credential variables have not been read by the running call
Unread == [MP_API_KEY |-> "unread", NOMAD_TOKEN |-> "unread"]

\* the second session has not started
PeerOff == [pc |-> "off", ok |-> FALSE, spawned |-> <<>>]

\* no call is running
Idle ==
  /\ pc = "idle"
  /\ entry = "none"
  /\ calls = 0
  /\ ok = FALSE
  /\ msg = NoMsg
  /\ venvOk = "none"
  /\ installed = {}
  /\ missing = <<>>
  /\ spawned = <<>>
  /\ status = <<>>
  /\ printed = <<>>
  /\ issues = <<>>
  /\ notes = <<>>
  /\ prev = NoCall
  /\ keysRead = Unread
  /\ peer = PeerOff

NotKeyed == <<"?">>

Init ==
  /\ platform \in Platforms
  /\ uvOnPath \in BOOLEAN
  /\ files \in {F \in SUBSET Paths :
                  (F \cap {PosixPython, WinPython} # {}) => ParentDir \in F}
  /\ sitePkgs \in IF VenvUsable THEN SUBSET NamePool ELSE {{}}
  /\ required \in RequiredLists
  /\ Idle
  /\ pkg = <<>>
  /\ listed = <<>>
  /\ pkgKey = NotKeyed
  /\ listedKey = NotKeyed

\* a command is spawned and ends as outcome o
Spawn(tool, pkgs, o) ==
  spawned' = Append(spawned, [tool |-> tool, pkgs |-> pkgs, outcome |-> o,
                              ok |-> run(tool, o).ok, out |-> run(tool, o).out])

\* ---------------------------------------------------------------- ensure_venv
\* ensure_venv returns (o, m) to its caller
EvReturn(o, m) ==
  /\ ok' = o
  /\ msg' = m
  /\ venvOk' = IF entry # "main" THEN venvOk ELSE IF o THEN "true" ELSE "false"
  /\ pc' = IF entry = "main" THEN "m_venv" ELSE "ret"

\* the existence test looking at the POSIX path only
VenvExists_PosixOnly(F) == PosixPython \in F

\* the existence test of setup.py line 78 on the set F of existing paths
VenvExists(F) == PosixPython \in F \/ WinPython \in F

\* setup.py lines 78-81
EvCheck ==
  /\ pc = "ev_check"
  /\ IF VenvExists(files)
     THEN /\ EvReturn(TRUE, Msg("venv exists", 0, <<>>))
          /\ UNCHANGED printed
     ELSE /\ printed' = Append(printed, Line("Creating Spinel virtual environment", NoMsg))
          /\ pc' = "ev_mkdir"
          /\ UNCHANGED <<ok, msg, venvOk>>
  /\ UNCHANGED <<envVars, entry, calls, installed, missing, spawned, status,
                 issues, notes, prev, normVars, keysRead, peer>>

\* setup.py line 82: mkdir(parents=True, exist_ok=True) on the parent directory
EvMkdir ==
  /\ pc = "ev_mkdir"
  /\ files' = files \cup {ParentDir}
  /\ pc' = "ev_which"
  /\ UNCHANGED <<platform, uvOnPath, sitePkgs, required, entry, calls, ok, msg,
                 venvOk, installed, missing, spawned, status, printed, issues,
                 notes, prev, normVars, keysRead, peer>>

\* the discovery of the fast tool left out: the fallback is used at once
EvWhich_NoFast ==
  /\ pc = "ev_which"
  /\ pc' = "ev_venv"
  /\ UNCHANGED <<envVars, entry, calls, ok, msg, venvOk, installed, missing,
                 spawned, status, printed, issues, notes, prev, normVars, keysRead, peer>>

\* setup.py lines 85-86
EvWhich ==
  /\ pc = "ev_which"
  /\ pc' = IF uvOnPath THEN "ev_uv" ELSE "ev_venv"
  /\ UNCHANGED <<envVars, entry, calls, ok, msg, venvOk, installed, missing,
                 spawned, status, printed, issues, notes, prev, normVars, keysRead, peer>>

\* what an environment-creation command that ended as o leaves on disk: all of
\* the environment on exit 0, nothing when it never started, and otherwise
\* either nothing or an interpreter already written before the failure
CreationLeaves(o) ==
  CASE o = "exit0" -> {files \cup {CreatedInterpreter(platform)}}
    [] o \in {"notfound", "oserror"} -> {files}
    [] OTHER -> {files, files \cup {CreatedInterpreter(platform)}}

\* the fast attempt without the fallback: its failure is returned at once
EvUv_NoFallback ==
  /\ pc = "ev_uv"
  /\ \E o \in Outcomes :
       /\ Spawn("uv venv", <<>>, o)
       /\ files' \in CreationLeaves(o)
       /\ IF run("uv venv", o).ok
          THEN EvReturn(TRUE, Msg("created with uv", 0, <<>>))
          ELSE EvReturn(FALSE, Msg("Failed to create venv: ", 0,
                                     run("uv venv", o).out))
  /\ UNCHANGED <<platform, uvOnPath, sitePkgs, required, entry, calls,
                 installed, missing, status, printed, issues, notes, prev,
                 normVars, keysRead, peer>>

\* setup.py lines 87-89
EvUv ==
  /\ pc = "ev_uv"
  /\ \E o \in Outcomes :
       /\ Spawn("uv venv", <<>>, o)
       /\ files' \in CreationLeaves(o)
       /\ IF run("uv venv", o).ok
          THEN EvReturn(TRUE, Msg("created with uv", 0, <<>>))
          ELSE pc' = "ev_venv" /\ UNCHANGED <<ok, msg, venvOk>>
  /\ UNCHANGED <<platform, uvOnPath, sitePkgs, required, entry, calls,
                 installed, missing, status, printed, issues, notes, prev,
                 normVars, keysRead, peer>>

\* the fallback attempt tried a second time after its first failure
EvVenv_RetryOnce ==
  /\ pc = "ev_venv"
  /\ \E o \in Outcomes :
       /\ Spawn("python -m venv", <<>>, o)
       /\ files' \in CreationLeaves(o)
       /\ IF run("python -m venv", o).ok
          THEN EvReturn(TRUE, Msg("created with venv", 0, <<>>))
          ELSE IF \E i \in 1..Len(spawned) : spawned[i].tool = "python -m venv"
               THEN EvReturn(FALSE, Msg("Failed to create venv: ", 0,
                                          run("python -m venv", o).out))
               ELSE pc' = "ev_venv" /\ UNCHANGED <<ok, msg, venvOk>>
  /\ UNCHANGED <<platform, uvOnPath, sitePkgs, required, entry, calls,
                 installed, missing, status, printed, issues, notes, prev,
                 normVars, keysRead, peer>>

\* setup.py lines 91-95
EvVenv ==
  /\ pc = "ev_venv"
  /\ \E o \in Outcomes :
       /\ Spawn("python -m venv", <<>>, o)
       /\ files' \in CreationLeaves(o)
       /\ IF run("python -m venv", o).ok
          THEN EvReturn(TRUE, Msg("created with venv", 0, <<>>))
          ELSE EvReturn(FALSE, Msg("Failed to create venv: ", 0,
                                     run("python -m venv", o).out))
  /\ UNCHANGED <<platform, uvOnPath, sitePkgs, required, entry, calls,
                 installed, missing, status, printed, issues, notes, prev,
                 normVars, keysRead, peer>>

\* ------------------------------------------------------------ check_installed
RECURSIVE SetToSeq(_)
SetToSeq(S) ==
  IF S = {} THEN <<>>
  ELSE LET x == CHOOSE y \in S : TRUE IN <<x>> \o SetToSeq(S \ {x})

\* the lines of `pip list --format=columns`, each line split into its words:
\* two header lines, then one row (name, version) per listed package
ListingLines(names) ==
  <<  <<"Package", "Version">>, <<"-------", "-------">>  >>
  \o [i \in 1..Cardinality(names) |-> <<SetToSeq(names)[i], "version">>]

\* setup.py lines 105-110: skip the two header lines, key the first word of
\* every non-empty line
ParseListing(lines) ==
  {InstalledKey(lines[i][1]) : i \in {j \in 3..Len(lines) : lines[j] # <<>>}}

\* the ways a command of the environment's own package manager can end
PipOutcomes == IF VenvUsable THEN Outcomes ELSE {"notfound"}

\* check_installed parsing the listing whether or not the command succeeded
CheckInstalled_NoFailOpen ==
  /\ pc = "ci_list"
  /\ \E o \in PipOutcomes :
       /\ Spawn("pip list", <<>>, o)
       /\ installed' = ParseListing(ListingLines(sitePkgs))
  /\ pc' = "im_diff"
  /\ UNCHANGED <<envVars, entry, calls, ok, msg, venvOk, missing, status,
                 printed, issues, notes, prev, normVars, keysRead, peer>>

\* setup.py lines 98-110
CheckInstalled ==
  /\ pc = "ci_list"
  /\ \E o \in PipOutcomes :
       /\ Spawn("pip list", <<>>, o)
       /\ installed' = IF run("pip list", o).ok
                       THEN ParseListing(ListingLines(sitePkgs))
                       ELSE {}
  /\ pc' = "im_diff"
  /\ UNCHANGED <<envVars, entry, calls, ok, msg, venvOk, missing, status,
                 printed, issues, notes, prev, normVars, keysRead, peer>>

\* ------------------------------------------------------------ install_missing
\* the diff comparing the raw declaration with the installed keys
MissingOf_Raw(reqs, inst) == SelectSeq(reqs, LAMBDA p : p \notin inst)

\* the diff returning the normalized names instead of the declarations
MissingOf_Normalized(reqs, inst) ==
  SelectSeq([i \in 1..Len(reqs) |-> normalize(reqs[i])], LAMBDA p : p \notin inst)

\* setup.py line 121
MissingOf(reqs, inst) == SelectSeq(reqs, LAMBDA p : normalize(p) \notin inst)

ImReturn(o, m) ==
  /\ ok' = o
  /\ msg' = m
  /\ pc' = IF entry = "main" THEN "m_pkgs" ELSE "ret"

\* setup.py lines 115-126
ImDiff ==
  /\ pc = "im_diff"
  /\ missing' = MissingOf(required, installed)
  /\ IF missing' = <<>>
     THEN /\ ImReturn(TRUE, Msg("all packages installed", 0, <<>>))
          /\ UNCHANGED printed
     ELSE /\ printed' = Append(printed,
                 Line("Installing", Msg("missing packages...", Len(missing'), <<>>)))
          /\ pc' = "im_which"
          /\ UNCHANGED <<ok, msg>>
  /\ UNCHANGED <<envVars, entry, calls, venvOk, installed, spawned, status,
                 issues, notes, prev, normVars, keysRead, peer>>

\* setup.py lines 129-130
ImWhich ==
  /\ pc = "im_which"
  /\ pc' = IF uvOnPath THEN "im_uv" ELSE "im_pip"
  /\ UNCHANGED <<envVars, entry, calls, ok, msg, venvOk, installed, missing,
                 spawned, status, printed, issues, notes, prev, normVars, keysRead, peer>>

\* the name a requirement is listed under once installed: its text before
\* the version comparator
NamePart(p) ==
  LET cut == {i \in 1..Len(p) : p[i] \in {">", "<", "=", "!", "~"}}
  IN IF cut = {} THEN p ELSE SubSeq(p, 1, Min(cut) - 1)

NamesOf(pkgs) == {NamePart(pkgs[i]) : i \in 1..Len(pkgs)}

\* what a batch install that ended as o leaves in the environment: every
\* package on exit 0, nothing when it never started, otherwise any part
InstallLeaves(pkgs, o) ==
  CASE o = "exit0" -> {sitePkgs \cup NamesOf(pkgs)}
    [] o \in {"notfound", "oserror"} -> {sitePkgs}
    [] OTHER -> {sitePkgs \cup X : X \in SUBSET NamesOf(pkgs)}

\* the fast tool installs into the interpreter get_python names
UvInstallOutcomes == IF VenvUsable THEN Outcomes ELSE Outcomes \ {"exit0"}

\* setup.py lines 131-133
ImUv ==
  /\ pc = "im_uv"
  /\ \E o \in UvInstallOutcomes :
       /\ Spawn("uv pip install", missing, o)
       /\ sitePkgs' \in IF VenvUsable THEN InstallLeaves(missing, o)
                        ELSE {sitePkgs}
       /\ IF run("uv pip install", o).ok
          THEN ImReturn(TRUE, Msg("installed packages with uv", Len(missing), <<>>))
          ELSE pc' = "im_pip" /\ UNCHANGED <<ok, msg>>
  /\ UNCHANGED <<platform, uvOnPath, files, required, entry, calls, venvOk,
                 installed, missing, status, printed, issues, notes, prev,
                 normVars, keysRead, peer>>

\* the fallback install handed the whole required list
ImPip_All ==
  /\ pc = "im_pip"
  /\ \E o \in PipOutcomes :
       /\ Spawn("pip install", required, o)
       /\ sitePkgs' \in InstallLeaves(missing, o)
       /\ IF run("pip install", o).ok
          THEN ImReturn(TRUE, Msg("installed packages with pip", Len(missing), <<>>))
          ELSE ImReturn(FALSE, Msg("Installation failed: ", 0,
                                   <<"out[-500:]">> \o run("pip install", o).out))
  /\ UNCHANGED <<platform, uvOnPath, files, required, entry, calls, venvOk,
                 installed, missing, status, printed, issues, notes, prev,
                 normVars, keysRead, peer>>

\* setup.py lines 136-140
ImPip ==
  /\ pc = "im_pip"
  /\ \E o \in PipOutcomes :
       /\ Spawn("pip install", missing, o)
       /\ sitePkgs' \in InstallLeaves(missing, o)
       /\ IF run("pip install", o).ok
          THEN ImReturn(TRUE, Msg("installed packages with pip", Len(missing), <<>>))
          ELSE ImReturn(FALSE, Msg("Installation failed: ", 0,
                                   <<"out[-500:]">> \o run("pip install", o).out))
  /\ UNCHANGED <<platform, uvOnPath, files, required, entry, calls, venvOk,
                 installed, missing, status, printed, issues, notes, prev,
                 normVars, keysRead, peer>>

\* ------------------------------------------------------------ check_api_keys
\* what os.environ.get returns for a variable: None, "" or a value
EnvValues == {"None", "", "value"}

\* check_api_keys testing for an unset variable only, not for an empty one
check_api_keys_UnsetOnly(mp_key, nomad) ==
  [issues |-> IF mp_key = "None"
              THEN <<Msg("MP_API_KEY not set.", 0, <<>>)>> ELSE <<>>,
   notes  |-> IF nomad = "None"
              THEN <<Msg("NOMAD_TOKEN not set (optional)", 0, <<>>)>> ELSE <<>>]

\* setup.py lines 143-159
check_api_keys(mp_key, nomad) ==
  [issues |-> IF mp_key \in {"None", ""}
              THEN <<Msg("MP_API_KEY not set.", 0, <<>>)>> ELSE <<>>,
   notes  |-> IF nomad \in {"None", ""}
              THEN <<Msg("NOMAD_TOKEN not set (optional)", 0, <<>>)>> ELSE <<>>]

\* ------------------------------------------------------------------- main
\* main without the return after a failed ensure_venv
MVenv_NoReturn ==
  /\ pc = "m_venv"
  /\ IF ~ok
     THEN /\ printed' = printed \o <<Line("venv failed", msg),
                                     Line("try manually: venv", NoMsg)>>
          /\ pc' = "ci_list"
          /\ UNCHANGED status
     ELSE /\ status' = Append(status, Line("venv ok", msg))
          /\ pc' = "ci_list"
          /\ UNCHANGED printed
  /\ UNCHANGED <<envVars, entry, calls, ok, msg, venvOk, installed, missing,
                 spawned, issues, notes, prev, normVars, keysRead, peer>>

\* setup.py lines 166-171
MVenv ==
  /\ pc = "m_venv"
  /\ IF ~ok
     THEN /\ printed' = printed \o <<Line("venv failed", msg),
                                     Line("try manually: venv", NoMsg)>>
          /\ pc' = "done"
          /\ UNCHANGED status
     ELSE /\ status' = Append(status, Line("venv ok", msg))
          /\ pc' = "ci_list"
          /\ UNCHANGED printed
  /\ UNCHANGED <<envVars, entry, calls, ok, msg, venvOk, installed, missing,
                 spawned, issues, notes, prev, normVars, keysRead, peer>>

\* main returning after a failed install_missing
MPkgs_AbortOnFailure ==
  /\ pc = "m_pkgs"
  /\ IF ~ok
     THEN /\ printed' = printed \o <<Line("package issue", msg),
                                     Line("try manually: install", NoMsg)>>
          /\ pc' = "done"
          /\ UNCHANGED status
     ELSE /\ status' = Append(status, Line("packages ok", msg))
          /\ pc' = "m_keys"
          /\ UNCHANGED printed
  /\ UNCHANGED <<envVars, entry, calls, ok, msg, venvOk, installed, missing,
                 spawned, issues, notes, prev, normVars, keysRead, peer>>

\* setup.py lines 176-180
MPkgs ==
  /\ pc = "m_pkgs"
  /\ IF ~ok
     THEN /\ printed' = printed \o <<Line("package issue", msg),
                                     Line("try manually: install", NoMsg)>>
          /\ UNCHANGED status
     ELSE /\ status' = Append(status, Line("packages ok", msg))
          /\ UNCHANGED printed
  /\ pc' = "m_keys"
  /\ UNCHANGED <<envVars, entry, calls, ok, msg, venvOk, installed, missing,
                 spawned, issues, notes, prev, normVars, keysRead, peer>>

\* main without the loop over the notes
MKeys_NoNotes ==
  /\ pc = "m_keys"
  /\ \E mp_key \in EnvValues, nomad \in EnvValues :
       LET r == check_api_keys(mp_key, nomad) IN
         /\ keysRead' = [MP_API_KEY |-> mp_key, NOMAD_TOKEN |-> nomad]
         /\ issues' = r.issues
         /\ notes' = r.notes
         /\ status' = status
              \o (IF r.issues # <<>>
                  THEN [i \in 1..Len(r.issues) |-> Line("issue", r.issues[i])]
                  ELSE <<Line("keys ok", NoMsg)>>)
  /\ pc' = "m_report"
  /\ UNCHANGED <<envVars, entry, calls, ok, msg, venvOk, installed, missing,
                 spawned, printed, prev, normVars, peer>>

\* setup.py lines 183-191
MKeys ==
  /\ pc = "m_keys"
  /\ \E mp_key \in EnvValues, nomad \in EnvValues :
       LET r == check_api_keys(mp_key, nomad) IN
         /\ keysRead' = [MP_API_KEY |-> mp_key, NOMAD_TOKEN |-> nomad]
         /\ issues' = r.issues
         /\ notes' = r.notes
         /\ status' = status
              \o (IF r.issues # <<>>
                  THEN [i \in 1..Len(r.issues) |-> Line("issue", r.issues[i])]
                  ELSE <<Line("keys ok", NoMsg)>>)
              \o [i \in 1..Len(r.notes) |-> Line("note", r.notes[i])]
  /\ pc' = "m_report"
  /\ UNCHANGED <<envVars, entry, calls, ok, msg, venvOk, installed, missing,
                 spawned, printed, prev, normVars, peer>>

\* setup.py lines 194-197
MReport ==
  /\ pc = "m_report"
  /\ printed' = printed \o status
                 \o <<Line("Spinel venv", NoMsg), Line("Python", NoMsg),
                      Line("To activate manually", NoMsg)>>
  /\ pc' = "done"
  /\ UNCHANGED <<envVars, entry, calls, ok, msg, venvOk, installed, missing,
                 spawned, status, issues, notes, prev, normVars, keysRead, peer>>

\* ------------------------------------------------------------ top-level calls
\* the keys an installed set handed to install_missing is made of
KeyPool == {InstalledKey(n) : n \in NamePool} \cup {normalize(p) : p \in SpecPool}

Begin(fn, first, inst, limit) ==
  /\ pc = "idle"
  /\ calls < limit
  /\ calls' = calls + 1
  /\ entry' = fn
  /\ pc' = first
  /\ installed' = inst
  /\ UNCHANGED <<envVars, ok, msg, venvOk, missing, spawned, status, printed,
                 issues, notes, prev, normVars, keysRead, peer>>

\* a session starts: main() (setup.py lines 162-163, 200-201)
CallMain == Begin("main", "ev_check", {}, RunsOfMain)

\* ensure_venv() called on its own
CallEnsureVenv == Begin("ensure_venv", "ev_check", {}, MaxCalls)

\* install_missing(installed) called on its own with any installed set
CallInstallMissing ==
  \E inst \in SUBSET KeyPool : Begin("install_missing", "im_diff", inst, MaxInstallCalls)

\* the call returns to its caller
Finish ==
  /\ pc \in {"ret", "done"}
  /\ prev' = [fn |-> entry, ok |-> ok, nspawn |-> Len(spawned)]
  /\ pc' = "idle"
  /\ entry' = "none"
  /\ installed' = {}
  /\ ok' = FALSE
  /\ msg' = NoMsg
  /\ venvOk' = "none"
  /\ missing' = <<>>
  /\ spawned' = <<>>
  /\ status' = <<>>
  /\ printed' = <<>>
  /\ issues' = <<>>
  /\ notes' = <<>>
  /\ keysRead' = Unread
  /\ UNCHANGED <<envVars, calls, normVars, peer>>

\* a session: the script runs main()
Next ==
  \/ CallMain
  \/ EvCheck
  \/ EvMkdir
  \/ EvWhich
  \/ EvUv
  \/ EvVenv
  \/ CheckInstalled
  \/ ImDiff
  \/ ImWhich
  \/ ImUv
  \/ ImPip
  \/ MVenv
  \/ MPkgs
  \/ MKeys
  \/ MReport
  \/ Finish

Spec == Init /\ [][Next]_vars

\* a session whose every step is eventually taken: the script is one
\* sequential process and each command it waits for returns or times out
\* (setup.py line 55, timeout=300); REQUIREMENTS names each package once
\* (setup.py lines 21-42)
InitLive ==
  /\ Init
  /\ \A i, j \in 1..Len(required) : required[i] = required[j] => i = j

SpecLive == InitLive /\ [][Next]_vars /\ WF_vars(Next)

\* ensure_venv() called repeatedly on its own
NextProv ==
  \/ CallEnsureVenv
  \/ EvCheck
  \/ EvMkdir
  \/ EvWhich
  \/ EvUv
  \/ EvVenv
  \/ Finish

SpecProv == Init /\ [][NextProv]_vars

\* install_missing(installed) called on its own
NextRecon ==
  \/ CallInstallMissing
  \/ ImDiff
  \/ ImWhich
  \/ ImUv
  \/ ImPip
  \/ Finish

SpecRecon == Init /\ [][NextRecon]_vars

\* ------------------------------------------- a second session (ensure_venv)
\* the second session moves to position p, the rest of it unchanged
PeerAt(p) == peer' = [peer EXCEPT !.pc = p]

\* ensure_venv of the second session returns o
PeerReturn(o, log) == peer' = [pc |-> "ret", ok |-> o, spawned |-> log]

\* the log of the second session after a command that ended as o
PeerSpawn(tool, o) ==
  Append(peer.spawned, [tool |-> tool, pkgs |-> <<>>, outcome |-> o,
                        ok |-> run(tool, o).ok, out |-> run(tool, o).out])

\* a second session starts while the first may be anywhere in its own run
PeerStart ==
  /\ peer.pc = "off"
  /\ PeerAt("ev_check")
  /\ UNCHANGED <<envVars, callVars, normVars, keysRead>>

\* setup.py lines 78-79 in the second session
PeerCheck ==
  /\ peer.pc = "ev_check"
  /\ IF VenvExists(files)
     THEN PeerReturn(TRUE, peer.spawned)
     ELSE PeerAt("ev_mkdir")
  /\ UNCHANGED <<envVars, callVars, normVars, keysRead>>

\* setup.py line 82 in the second session
PeerMkdir ==
  /\ peer.pc = "ev_mkdir"
  /\ files' = files \cup {ParentDir}
  /\ PeerAt("ev_which")
  /\ UNCHANGED <<platform, uvOnPath, sitePkgs, required, callVars, normVars,
                 keysRead>>

\* setup.py lines 85-86 in the second session
PeerWhich ==
  /\ peer.pc = "ev_which"
  /\ PeerAt(IF uvOnPath THEN "ev_uv" ELSE "ev_venv")
  /\ UNCHANGED <<envVars, callVars, normVars, keysRead>>

\* setup.py lines 87-89 in the second session
PeerUv ==
  /\ peer.pc = "ev_uv"
  /\ \E o \in Outcomes :
       /\ files' \in CreationLeaves(o)
       /\ IF run("uv venv", o).ok
          THEN PeerReturn(TRUE, PeerSpawn("uv venv", o))
          ELSE peer' = [peer EXCEPT !.pc = "ev_venv",
                                    !.spawned = PeerSpawn("uv venv", o)]
  /\ UNCHANGED <<platform, uvOnPath, sitePkgs, required, callVars, normVars,
                 keysRead>>

\* setup.py lines 91-95 in the second session
PeerVenv ==
  /\ peer.pc = "ev_venv"
  /\ \E o \in Outcomes :
       /\ files' \in CreationLeaves(o)
       /\ PeerReturn(run("python -m venv", o).ok, PeerSpawn("python -m venv", o))
  /\ UNCHANGED <<platform, uvOnPath, sitePkgs, required, callVars, normVars,
                 keysRead>>

\* two sessions run ensure_venv() against the same base directory; their
\* steps interleave in any order (nothing in setup.py locks the directory)
NextConc ==
  \/ CallEnsureVenv
  \/ EvCheck
  \/ EvMkdir
  \/ EvWhich
  \/ EvUv
  \/ EvVenv
  \/ Finish
  \/ PeerStart
  \/ PeerCheck
  \/ PeerMkdir
  \/ PeerWhich
  \/ PeerUv
  \/ PeerVenv

SpecConc == Init /\ [][NextConc]_vars

\* ------------------------------------------------- the normalisation functions
\* characters of package names, and of package specs
NameChars == {"a", "A", "-", ".", "_"}
SpecChars == NameChars \cup {">", "<", "=", "1"}

Strings(chars, n) == UNION {[1..k -> chars] : k \in 0..n}

\* version comparators of a spec (setup.py line 119) and versions after them
Comparators == {<<">", "=">>, <<"<", "=">>, <<"=", "=">>}
Versions == {<<"1">>, <<"1", ".", "1">>}

\* names as the package manager may list them
ListedNames == Strings(NameChars, MaxLen - 1) \ {<<>>}

\* specs of the form name, or name comparator version
DeclaredSpecs ==
  ListedNames
  \cup {n \o c \o v : n \in ListedNames, c \in Comparators, v \in Versions}

\* the inputs of the two key functions: any string as the spec, or a declared
\* spec together with any listed name
InitNorm ==
  /\ platform = "posix"
  /\ uvOnPath = FALSE
  /\ files = {}
  /\ sitePkgs = {}
  /\ required = <<Spec_PyBaMM>>
  /\ Idle
  /\ \/ pkg \in Strings(SpecChars, MaxLen) /\ listed = Name_pip
     \/ pkg \in DeclaredSpecs /\ listed \in ListedNames
  /\ pkgKey = NotKeyed
  /\ listedKey = NotKeyed

\* check_installed keys a listed name (setup.py line 109) and install_missing
\* normalizes a spec (setup.py lines 118-121)
ComputeKeys ==
  /\ pkgKey = NotKeyed
  /\ pkgKey' = normalize(pkg)
  /\ listedKey' = InstalledKey(listed)
  /\ UNCHANGED <<envVars, callVars, pkg, listed, keysRead, peer>>

NextNorm == ComputeKeys

SpecNorm == InitNorm /\ [][NextNorm]_vars

\* ---------------------------------------------------------------- properties
CreationTools == {"uv venv", "python -m venv"}
InstallTools == {"uv pip install", "pip install"}

\* positions of the commands of the given tools in the spawn log
SpawnsOf(tools) == {i \in 1..Len(spawned) : spawned[i].tool \in tools}

\* C1 as stated: two successive ensure_venv() calls both return ok=true and
\* the second spawns no process, whatever the base directory was at first
C1_TwiceOkAsStated ==
  (entry = "ensure_venv" /\ pc = "ret" /\ prev.fn = "ensure_venv")
    => (prev.ok /\ ok /\ spawned = <<>>)

\* C1 amended: when an ensure_venv() call has returned ok=true, the next
\* ensure_venv() call returns ok=true as well and spawns no process: it stops
\* at the existence test
C1_Idempotent ==
  (entry = "ensure_venv" /\ prev.fn = "ensure_venv" /\ prev.ok)
    => /\ spawned = <<>>
       /\ pc \in {"ev_check", "ret"}
       /\ (pc = "ret" => ok)

\* the first call created the environment, the second call has returned
C1_Witness ==
  /\ entry = "ensure_venv" /\ pc = "ret" /\ ok /\ spawned = <<>>
  /\ prev.fn = "ensure_venv" /\ prev.ok /\ prev.nspawn > 0

\* C2 as stated: with an interpreter at the POSIX or at the Windows path, on
\* any platform, ensure_venv() returns at once (true, "already exists"),
\* creating no directory and spawning no process
C2_AlreadyExistsAsStated ==
  [][(pc = "ev_check" /\ (PosixPython \in files \/ WinPython \in files))
       => /\ pc' \in {"ret", "m_venv"}
          /\ ok' /\ msg'.text = "already exists"
          /\ files' = files /\ spawned' = spawned]_vars

\* C2 amended: with an interpreter at the POSIX or at the Windows path, on
\* any platform, ensure_venv() returns at once (true, "venv exists"),
\* creating no directory and spawning no process
C2_ExistsReturnsAtOnce ==
  [][(pc = "ev_check" /\ (PosixPython \in files \/ WinPython \in files))
       => /\ pc' \in {"ret", "m_venv"}
          /\ ok' /\ msg'.text = "venv exists"
          /\ files' = files /\ spawned' = spawned]_vars

\* ensure_venv() has returned on a POSIX host whose base directory holds the
\* Windows interpreter only
C2_Witness ==
  /\ entry = "ensure_venv" /\ pc = "ret" /\ ok /\ msg.text = "venv exists"
  /\ platform = "posix" /\ files = {ParentDir, WinPython} /\ spawned = <<>>

\* C3: when ensure_venv() found the environment absent and the fast tool is
\* not discoverable or its attempt failed, the fallback creation was spawned
\* exactly once and the returned ok flag is the fallback's success flag
C3_FallbackDecides ==
  (/\ entry = "ensure_venv" /\ pc = "ret" /\ printed # <<>>
   /\ \/ ~uvOnPath
      \/ \E i \in SpawnsOf({"uv venv"}) : spawned[i].outcome # "exit0")
    => /\ Cardinality(SpawnsOf({"python -m venv"})) = 1
       /\ \A i \in SpawnsOf({"python -m venv"}) :
            ok = (spawned[i].outcome = "exit0")

\* the fast tool was tried and failed, the fallback succeeded
C3_Witness ==
  /\ entry = "ensure_venv" /\ pc = "ret" /\ ok /\ uvOnPath
  /\ Len(spawned) = 2
  /\ spawned[1].tool = "uv venv" /\ spawned[1].outcome = "timeout"
  /\ spawned[2].tool = "python -m venv" /\ spawned[2].outcome = "exit0"

ReconTools == {"pip list"} \cup InstallTools

\* C4: in a run of main() the listing and install commands are spawned only
\* after ensure_venv() returned ok=true, after every creation command; when
\* ensure_venv() returned ok=false the run aborts and spawns none of them
C4_ReconcilerAfterProvisioner ==
  entry = "main" =>
    /\ (SpawnsOf(ReconTools) # {} => venvOk = "true")
    /\ (pc \in {"ci_list", "im_diff", "im_which", "im_uv", "im_pip", "m_pkgs"}
          => venvOk = "true")
    /\ \A i \in SpawnsOf(ReconTools), j \in SpawnsOf(CreationTools) : j < i
    /\ (venvOk = "false"
          => /\ pc \in {"m_venv", "done"}
             /\ SpawnsOf(ReconTools) = {}
             /\ status = <<>>)

\* a run that created the environment and then listed its packages has ended
C4_Witness ==
  /\ entry = "main" /\ pc = "done" /\ venvOk = "true"
  /\ SpawnsOf(CreationTools) # {} /\ SpawnsOf({"pip list"}) # {}

\* every required spec has its normalized name in the installed set
AllInstalled == \A i \in 1..Len(required) : normalize(required[i]) \in installed

\* C5: when the installed set holds the normalized name of every required
\* entry, install_missing returns (true, "all packages installed") and spawns
\* no command
C5_EmptyDiffNoOp ==
  (entry = "install_missing" /\ AllInstalled)
    => /\ spawned = <<>>
       /\ pc \in {"im_diff", "ret"}
       /\ (pc = "ret" => ok /\ msg = Msg("all packages installed", 0, <<>>))

\* install_missing has returned for a two-entry list that is all installed
C5_Witness ==
  /\ entry = "install_missing" /\ pc = "ret" /\ AllInstalled /\ ok
  /\ required = <<Spec_mp_api, Spec_PyBaMM>>

\* positions of the required entries whose normalized name is not installed
AbsentIdx == {i \in 1..Len(required) : normalize(required[i]) \notin installed}

\* the j-th smallest element of a set of numbers
NthOf(S, j) == CHOOSE i \in S : Cardinality({k \in S : k <= i}) = j

\* C6: the missing list is the required entries whose normalized name is not
\* installed, in declaration order, each as declared; every install command
\* carries exactly that list and no spec whose name is installed
C6_MissingIsOrderedDeficit ==
  (entry = "install_missing" /\ pc # "im_diff")
    => /\ Len(missing) = Cardinality(AbsentIdx)
       /\ \A j \in 1..Len(missing) : missing[j] = required[NthOf(AbsentIdx, j)]
       /\ \A i \in SpawnsOf(InstallTools) :
            /\ spawned[i].pkgs = missing
            /\ \A k \in 1..Len(spawned[i].pkgs) :
                 normalize(spawned[i].pkgs[k]) \notin installed

Key_mp_api == <<"m", "p", "_", "a", "p", "i">>

\* required ["mp-api>=0.41.0", "PyBaMM"] with mp_api installed: the one
\* install command carries ["PyBaMM"]
C6_Witness ==
  /\ entry = "install_missing" /\ pc = "ret"
  /\ required = <<Spec_mp_api, Spec_PyBaMM>> /\ installed = {Key_mp_api}
  /\ Len(spawned) = 1 /\ spawned[1].pkgs = <<Spec_PyBaMM>>

\* C7: when install_missing has a non-empty missing list and the fast tool is
\* not discoverable or its install failed, the package manager's install was
\* spawned exactly once with the same missing list, and the returned ok flag
\* is that command's success flag
C7_InstallFallbackDecides ==
  (/\ entry = "install_missing" /\ pc = "ret" /\ missing # <<>>
   /\ \/ ~uvOnPath
      \/ \E i \in SpawnsOf({"uv pip install"}) : spawned[i].outcome # "exit0")
    => /\ Cardinality(SpawnsOf({"pip install"})) = 1
       /\ \A i \in SpawnsOf({"pip install"}) :
            /\ spawned[i].pkgs = missing
            /\ ok = (spawned[i].outcome = "exit0")
       /\ \A i \in SpawnsOf({"uv pip install"}) : spawned[i].pkgs = missing

\* the fast install of a one-entry deficit failed, the fallback succeeded
C7_Witness ==
  /\ entry = "install_missing" /\ pc = "ret" /\ ok /\ uvOnPath
  /\ Len(missing) = 1 /\ Len(required) = 2 /\ Len(spawned) = 2
  /\ spawned[1].tool = "uv pip install" /\ spawned[1].outcome = "nonzero"
  /\ spawned[2].tool = "pip install" /\ spawned[2].outcome = "exit0"

\* the listing command of the running call failed
ListingFailed ==
  \E i \in SpawnsOf({"pip list"}) : spawned[i].outcome # "exit0"

\* C10: when the listing command fails, check_installed() returns the empty
\* set, install_missing then takes the whole required list as missing and an
\* install command carrying the whole required list is spawned
C10_ListingFailureInstallsAll ==
  (entry = "main" /\ ListingFailed)
    => /\ installed = {}
       /\ (pc # "im_diff" => missing = required)
       /\ (pc \in {"m_pkgs", "m_keys", "m_report", "done"}
             => \E i \in SpawnsOf(InstallTools) : spawned[i].pkgs = required)

\* the listing timed out in an environment that holds packages, and the run
\* went on to install both required entries
C10_Witness ==
  /\ entry = "main" /\ pc = "done" /\ Len(required) = 2
  /\ \E i \in SpawnsOf({"pip list"}) : spawned[i].outcome = "timeout"
  /\ \E i \in SpawnsOf(InstallTools) :
       spawned[i].pkgs = required /\ spawned[i].outcome = "exit0"
  /\ Name_pip \in sitePkgs

\* two characters that differ at most in letter case or in the separator used
CharClass(c) == IF c \in {"-", ".", "_"} THEN "separator" ELSE LowerChar(c)

\* two strings that are the same up to letter case and separators
SameUpTo(a, b) ==
  Len(a) = Len(b) /\ \A i \in 1..Len(a) : CharClass(a[i]) = CharClass(b[i])

IsName(s) == \A i \in 1..Len(s) : s[i] \notin {">", "<", "="}

\* positions where a spec is a name followed by a comparator
NameEnds(p) ==
  {k \in 1..(Len(p) - 1) :
     IsName(SubSeq(p, 1, k - 1)) /\ <<p[k], p[k + 1]>> \in Comparators}

\* a spec of the form name, or name comparator version
WellFormed(p) == IsName(p) \/ NameEnds(p) # {}

\* the package name a well-formed spec declares
DeclaredName(p) ==
  IF IsName(p) THEN p ELSE SubSeq(p, 1, (CHOOSE k \in NameEnds(p) : TRUE) - 1)

Ex_Dans_Diffraction ==
  <<"D","a","n","s","_","D","i","f","f","r","a","c","t","i","o","n">>
Ex_dans_hyphen ==
  <<"d","a","n","s","-","d","i","f","f","r","a","c","t","i","o","n">>
Ex_dans_dot ==
  <<"d","a","n","s",".","d","i","f","f","r","a","c","t","i","o","n">>

\* C8: the key check_installed computes for a listed name and the key
\* normalize computes for a spec are the same whenever the listed name and the
\* name the spec declares differ only in letter case and in the separators
\* "-", "." and "_"; "Dans_Diffraction", "dans-diffraction" and
\* "dans.diffraction" have one key
C8_SamePackageSameKey ==
  /\ (pkgKey # NotKeyed /\ WellFormed(pkg) /\ SameUpTo(listed, DeclaredName(pkg)))
       => listedKey = pkgKey
  /\ InstalledKey(Ex_dans_hyphen) = normalize(Ex_Dans_Diffraction)
  /\ InstalledKey(Ex_dans_dot) = normalize(Ex_Dans_Diffraction)
  /\ InstalledKey(Ex_Dans_Diffraction) = normalize(Ex_dans_dot)

\* the name listed as "a-" and the spec "A.==1" have been keyed
C8_Witness ==
  /\ listed = <<"a", "-">> /\ pkg = <<"A", ".", "=", "=", "1">>
  /\ pkgKey # NotKeyed /\ listedKey = pkgKey

\* the prefix of s before the leftmost comparator token, s when it has none
TruncateAtFirstComparator(s) ==
  LET at == {i \in 1..(Len(s) - 1) : <<s[i], s[i + 1]>> \in Comparators}
  IN IF at = {} THEN s
     ELSE SubSeq(s, 1, (CHOOSE i \in at : \A j \in at : i <= j) - 1)

\* "-" and "." written as the canonical separator
Canonical(s) ==
  [i \in 1..Len(s) |-> IF s[i] \in {"-", "."} THEN "_" ELSE s[i]]

Ex_pymatgen_spec ==
  <<"p","y","m","a","t","g","e","n",">","=","2","0","2","4",".","0",".","0">>
Ex_pymatgen == <<"p","y","m","a","t","g","e","n">>
Ex_ase_spec == <<"a","s","e",">","=","3",".","2","2">>
Ex_Ase == <<"A","s","e">>

\* C9: normalize(spec) is the lowercased spec cut at the leftmost occurrence
\* of any of ">=", "<=", "==", with "-" and "." then written "_";
\* "pymatgen>=2024.0.0" has the key of "pymatgen" and "ase>=3.22" that of "Ase"
C9_NormalizeTruncates ==
  /\ pkgKey # NotKeyed
       => pkgKey = Canonical(TruncateAtFirstComparator(Lower(pkg)))
  /\ normalize(Ex_pymatgen_spec) = normalize(Ex_pymatgen)
  /\ normalize(Ex_ase_spec) = normalize(Ex_Ase)

\* the spec "A.<=1.1" has been normalized
C9_Witness ==
  /\ pkg = <<"A", ".", "<", "=", "1", ".", "1">>
  /\ pkgKey = <<"a", "_">>

\* C11: check_api_keys() puts each credential variable in one class by a
\* non-empty-string test: issues is the one entry naming MP_API_KEY iff that
\* variable is unset or empty, and is empty otherwise; notes is the one entry
\* naming NOMAD_TOKEN iff that variable is unset or empty, and is empty
\* otherwise
C11_CredentialClassification ==
  keysRead # Unread
    => /\ issues = IF keysRead.MP_API_KEY = "value" THEN <<>>
                   ELSE <<Msg("MP_API_KEY not set.", 0, <<>>)>>
       /\ notes = IF keysRead.NOMAD_TOKEN = "value" THEN <<>>
                  ELSE <<Msg("NOMAD_TOKEN not set (optional)", 0, <<>>)>>

\* the required variable was read as the empty string, the optional one as set
C11_Witness ==
  /\ keysRead = [MP_API_KEY |-> "", NOMAD_TOKEN |-> "value"]
  /\ Len(issues) = 1 /\ notes = <<>>

\* positions of the printed lines of the given kinds
PrintedAt(kinds) == {i \in 1..Len(printed) : printed[i].kind \in kinds}

ProvisionerLines == {"venv ok", "venv failed"}
ReconcilerLines == {"packages ok", "package issue"}

\* C12: in the output of a run of main() the Provisioner status line comes
\* first, then the Reconciler status line (success or warning), then the
\* credential issues, then the credential notes
C12_StatusOrder ==
  (entry = "main" /\ pc = "done")
    => /\ \A i \in PrintedAt(ProvisionerLines), j \in PrintedAt(ReconcilerLines) :
            i < j
       /\ \A i \in PrintedAt(ReconcilerLines), j \in PrintedAt({"issue", "keys ok"}) :
            i < j
       /\ \A i \in PrintedAt({"issue", "keys ok"}), j \in PrintedAt({"note"}) :
            i < j

\* every credential variable read as unset or empty has its line in the output
MissingCredentialsReported ==
  /\ keysRead # Unread
  /\ keysRead.MP_API_KEY # "value"
       => \E i \in PrintedAt({"issue"}) : printed[i].msg.text = "MP_API_KEY not set."
  /\ keysRead.NOMAD_TOKEN # "value"
       => \E i \in PrintedAt({"note"}) :
            printed[i].msg.text = "NOMAD_TOKEN not set (optional)"

\* the report was printed to its last line
ReportPrinted == PrintedAt({"To activate manually"}) # {}

\* C13 as stated: every run of main(), whatever ensure_venv() and
\* install_missing returned, reads the credentials and reports each missing one
C13_AlwaysCheckedAsStated ==
  (entry = "main" /\ pc = "done") => MissingCredentialsReported

\* C13 amended: every run of main() in which ensure_venv() returned ok=true,
\* whatever install_missing returned, reads the credentials and reports each
\* missing one, and a missing credential does not keep the run from printing
\* its report
C13_CheckedAfterProvisioning ==
  (entry = "main" /\ pc = "done" /\ venvOk = "true")
    => MissingCredentialsReported /\ ReportPrinted

\* a run with both credentials missing has ended after a successful install
C13_Witness ==
  /\ entry = "main" /\ pc = "done" /\ venvOk = "true" /\ ok
  /\ SpawnsOf(InstallTools) # {}
  /\ keysRead = [MP_API_KEY |-> "None", NOMAD_TOKEN |-> ""]
  /\ PrintedAt({"issue"}) # {} /\ PrintedAt({"note"}) # {}

\* C16: when install_missing returned ok=false, its install commands having
\* failed, main() still reads the credentials, prints the Provisioner status
\* line, every credential issue and every credential note, and prints no
\* success line for the packages
C16_InstallFailureNotFatal ==
  (entry = "main" /\ pc = "done" /\ venvOk = "true" /\ ~ok)
    => /\ \A i \in SpawnsOf(InstallTools) : spawned[i].outcome # "exit0"
       /\ SpawnsOf({"pip install"}) # {}
       /\ PrintedAt({"package issue"}) # {}
       /\ PrintedAt({"packages ok"}) = {}
       /\ PrintedAt({"venv ok"}) # {}
       /\ keysRead # Unread
       /\ Cardinality(PrintedAt({"issue"})) = Len(issues)
       /\ Cardinality(PrintedAt({"note"})) = Len(notes)
       /\ \A k \in 1..Len(issues) :
            \E i \in PrintedAt({"issue"}) : printed[i].msg = issues[k]
       /\ \A k \in 1..Len(notes) :
            \E i \in PrintedAt({"note"}) : printed[i].msg = notes[k]

\* the fast and the fallback install failed in a run that went on to report
\* one issue and one note
C16_Witness ==
  /\ entry = "main" /\ pc = "done" /\ venvOk = "true" /\ ~ok
  /\ SpawnsOf({"uv pip install"}) # {} /\ SpawnsOf({"pip install"}) # {}
  /\ Len(issues) = 1 /\ Len(notes) = 1
  /\ PrintedAt({"issue"}) # {} /\ PrintedAt({"note"}) # {}

\* the result run() handed back for the logged command r is the one stated
\* for the way the command ended
RunResultAsStated(r) ==
  CASE r.outcome = "exit0" ->
         r.ok /\ r.out = <<"stdout+stderr", r.tool>>
    [] r.outcome = "nonzero" ->
         ~r.ok /\ r.out = <<"stdout+stderr", r.tool>>
    [] OTHER ->
         ~r.ok /\ r.out = <<"str(e)", r.outcome, r.tool>>

\* C14: every call of run() gives its caller a result and the caller goes on:
\* (true, stdout+stderr) on exit code 0, (false, stdout+stderr) on another
\* exit code, (false, exception text) on a timeout, a missing binary or any
\* other failure; one call spawns one process and does not spawn again
C14_RunNeverRaisesNeverRetries ==
  [][/\ Len(spawned') <= Len(spawned) + 1
     /\ Len(spawned') = Len(spawned) + 1
          => /\ SubSeq(spawned', 1, Len(spawned)) = spawned
             /\ RunResultAsStated(spawned'[Len(spawned')])
             /\ pc' \notin {"idle", pc}]_vars

\* a run whose commands ended in a timeout, a missing binary, another
\* exception, a non-zero exit and exit code 0
C14_Witness ==
  /\ entry = "main" /\ pc = "done" /\ Len(spawned) = 5
  /\ spawned[1].outcome = "timeout" /\ spawned[2].outcome = "exit0"
  /\ spawned[3].outcome = "notfound" /\ spawned[4].outcome = "oserror"
  /\ spawned[5].outcome = "nonzero"

\* the sequence o occurs in the sequence m
OccursIn(o, m) ==
  \E k \in 0..(Len(m) - Len(o)) : SubSeq(m, k + 1, k + Len(o)) = o

\* C15: when the fast tool was tried and both creation attempts failed,
\* ensure_venv() returns failure with a message that carries the output of
\* the fast attempt and the output of the fallback attempt
C15_CombinedDiagnostic ==
  (entry = "ensure_venv" /\ pc = "ret" /\ ~ok /\ SpawnsOf({"uv venv"}) # {})
    => \A i \in SpawnsOf(CreationTools) : OccursIn(spawned[i].out, msg.out)

\* C17: the interpreter path get_python gives is the conventional one of the
\* platform (bin/python, Scripts/python.exe) and is one of the two paths
\* whose presence ensure_venv() tests
C17_LocatorMatchesExistenceTest ==
  (entry = "main" /\ pc = "im_uv")
    => /\ get_python(platform) = CreatedInterpreter(platform)
       /\ get_python(platform) \in {PosixPython, WinPython}

\* the positions of main() after check_installed has returned
AfterListing == {"im_diff", "im_which", "im_uv", "im_pip", "m_pkgs", "m_keys",
                 "m_report"}

\* how many times the running call has spawned the tool t
TimesSpawned(t) == Cardinality(SpawnsOf({t}))

\* no tool was spawned twice by the running call, the listing command was
\* spawned once check_installed has returned, five processes at most
AtMostOnceEach ==
  /\ \A t \in CreationTools \cup InstallTools \cup {"pip list"} :
       TimesSpawned(t) <= 1
  /\ pc \in AfterListing => TimesSpawned("pip list") = 1
  /\ Len(spawned) <= 5

\* C18: within one run of main() no tool is attempted twice (at most one fast
\* and one fallback creation, at most one fast and one fallback install,
\* exactly one listing), so at most five processes are spawned, and the run
\* always reaches its end
C18_NoRetriesAndTermination ==
  /\ [](entry = "main" => AtMostOnceEach)
  /\ (entry = "main") ~> (entry = "main" /\ pc = "done")

\* a finished run that spawned all five commands, each one once
C18_Witness ==
  /\ entry = "main" /\ pc = "done" /\ Len(spawned) = 5
  /\ \A t \in CreationTools \cup InstallTools \cup {"pip list"} :
       TimesSpawned(t) = 1

\* the log holds an environment-creation command
IssuedCreation(log) ==
  \E i \in 1..Len(log) : log[i].tool \in CreationTools

\* C19: of two sessions running ensure_venv() against the same base directory
\* at the same time, at most one issues environment-creation commands; the
\* other finds the environment existing and issues none
C19_AtMostOneCreator ==
  (entry = "ensure_venv" /\ peer.pc # "off")
    => ~(IssuedCreation(spawned) /\ IssuedCreation(peer.spawned))

\* the running call spawned the tool t and it succeeded / and it failed
Succeeded(t) == \E i \in SpawnsOf({t}) : spawned[i].ok
Failed(t) == \E i \in SpawnsOf({t}) : ~spawned[i].ok

\* the running call announced the stage on the console (lines 81, 126)
Announced(kind) == \E i \in 1..Len(printed) : printed[i].kind = kind

\* of one stage: the fast command precedes the fallback command, a fast
\* success leaves the fallback unspawned, and the fallback is spawned only
\* when the fast tool is off the search path or its attempt failed
FastThenFallback(fast, fallback) ==
  /\ \A i \in SpawnsOf({fallback}) : \A j \in SpawnsOf({fast}) : j < i
  /\ Succeeded(fast) => SpawnsOf({fallback}) = {}
  /\ SpawnsOf({fallback}) # {} => (~uvOnPath \/ Failed(fast))

\* of one stage that was entered and has returned: the fast tool was tried
\* when discoverable, the fallback was spawned exactly when the fast tool
\* was not discoverable or failed, a fast success is returned under the
\* fast tool's name
StageReturned(kind, fast, fallback, fastText) ==
  Announced(kind)
    => /\ uvOnPath => SpawnsOf({fast}) # {}
       /\ SpawnsOf({fallback}) # {} <=> (~uvOnPath \/ Failed(fast))
       /\ Succeeded(fast) => (ok /\ msg.text = fastText)

\* C20: in ensure_venv() and in install_missing the fast tool is tried before
\* the fallback when it is discoverable; when it succeeds the fallback is
\* not spawned and the returned message names the fast tool; the fallback is
\* spawned iff the fast tool was not discoverable or its attempt failed
C20_FastBeforeFallback ==
  entry = "main"
    => /\ FastThenFallback("uv venv", "python -m venv")
       /\ FastThenFallback("uv pip install", "pip install")
       /\ pc = "m_venv"
            => StageReturned("Creating Spinel virtual environment",
                             "uv venv", "python -m venv", "created with uv")
       /\ pc = "m_pkgs"
            => StageReturned("Installing", "uv pip install", "pip install",
                             "installed packages with uv")

\* install_missing has returned in a run whose fast creation succeeded and
\* whose fast install failed, the fallback install being spawned after it
C20_Witness ==
  /\ entry = "main" /\ pc = "m_pkgs" /\ uvOnPath
  /\ Succeeded("uv venv") /\ SpawnsOf({"python -m venv"}) = {}
  /\ Failed("uv pip install") /\ SpawnsOf({"pip install"}) # {}

====
